---- MODULE Spec2Model ----
(***************************************************************************)
(* Model of app.py, the tri-colour IHC data processing script.             *)
(*                                                                         *)
(* Streamlit runs the script top to bottom on every interaction; what      *)
(* outlives a run is st.session_state.  Text is modelled as a sequence of  *)
(* one-character strings, a JSON value as a tagged record, and a pandas    *)
(* DataFrame as [columns, index, rows] whose rows are functions from       *)
(* column name to cell.                                                    *)
(***************************************************************************)
EXTENDS Integers, Sequences, FiniteSets, TLC

VARIABLES
    geojson_files,     \* st.file_uploader("geojson_file"): the uploaded files, in order
    mapping_file,      \* st.file_uploader("mapping_file"): the uploaded text, if any
    tune,              \* st.checkbox("Do you want to tune the thresholds?")
    df_self_count,     \* the reference table read from the "self count file", if any
    thresholds,        \* the three number inputs, or the three sliders
    session_state,     \* st.session_state: key -> DataFrame
    outputs,           \* the tables the last run bound: name -> DataFrame
    exception,         \* the exception that ended the last run, or "none"
    pc,                \* "start" before the first run, "ran" after a run
    mapping_entries    \* how the uploaded mapping text was written, line by line

vars == <<geojson_files, mapping_file, tune, df_self_count, thresholds,
          session_state, outputs, exception, pc, mapping_entries>>

(***************************************************************************)
(* Values: Python objects, JSON values and DataFrame cells.                *)
(***************************************************************************)
Str(s) == [kind |-> "str", v |-> s]

\* A str held as its characters (text that was parsed out of a file).
Chars(s) == [kind |-> "chars", v |-> s]

Num(n) == [kind |-> "num", v |-> n]

Bool(b) == [kind |-> "bool", v |-> b]

List(items) == [kind |-> "list", v |-> items]

Dict(fields) == [kind |-> "dict", v |-> fields]

\* None / NaN / SQL NULL.
Null == [kind |-> "null", v |-> 0]

IsNull(cell) == cell.kind = "null"

DataFrame(columns, index, rows) == [columns |-> columns, index |-> index, rows |-> rows]

RangeIndex(n) == [i \in 1..n |-> i - 1]

\* What a function or a block of the script does: returns a value, or raises.
Return(value) == [raised |-> "none", value |-> value]

Raise(error) == [raised |-> error, value |-> Null]

EmptyMap == [k \in {} |-> Null]

(***************************************************************************)
(* Bounds.                                                                 *)
(***************************************************************************)
\* Most lines in an uploaded mapping file.
MaxLines == 2

\* Most features in one GeoJSON document.
MaxFeatures == 2

\* Most GeoJSON files in one upload.
MaxFiles == 2

\* Most rows of a combined annotation table drawn for the aggregator.
MaxRows == 2

\* Most rows of a reference table.
MaxRefRows == 2

(***************************************************************************)
(* Python string helpers.                                                  *)
(***************************************************************************)
Digits == <<"0", "1", "2", "3", "4", "5", "6", "7", "8", "9">>

DigitSet == {Digits[i] : i \in 1..10}

Whitespace == {" ", "\t"}

DigitVal(c) == (CHOOSE i \in 1..10 : Digits[i] = c) - 1

\* str(n) for n >= 0.
RECURSIVE str(_)
str(n) == IF n < 10 THEN <<Digits[n + 1]>> ELSE str(n \div 10) \o <<Digits[(n % 10) + 1]>>

RECURSIVE DigitsValue(_)
DigitsValue(s) == IF Len(s) = 0 THEN 0 ELSE DigitsValue(SubSeq(s, 1, Len(s) - 1)) * 10 + DigitVal(s[Len(s)])

\* Whether int(s) returns: s is a non-empty run of decimal digits.
IsIntLiteral(s) == Len(s) > 0 /\ \A i \in 1..Len(s) : s[i] \in DigitSet

\* int(s) for such a token.
int(s) == DigitsValue(s)

\* s.split(sep) for a one-character separator set: empty pieces are kept.
RECURSIVE SplitKeep(_, _)
SplitKeep(s, seps) ==
    IF \A i \in 1..Len(s) : s[i] \notin seps
    THEN <<s>>
    ELSE LET i == CHOOSE k \in 1..Len(s) : s[k] \in seps /\ \A j \in 1..(k - 1) : s[j] \notin seps
         IN  <<SubSeq(s, 1, i - 1)>> \o SplitKeep(SubSeq(s, i + 1, Len(s)), seps)

NonEmpty(t) == Len(t) > 0

\* s.split(): split on runs of whitespace, no empty pieces.
split(s) == SelectSeq(SplitKeep(s, Whitespace), NonEmpty)

\* s.strip()
RECURSIVE strip(_)
strip(s) ==
    IF Len(s) = 0 THEN s
    ELSE IF s[1] \in Whitespace THEN strip(Tail(s))
    ELSE IF s[Len(s)] \in Whitespace THEN strip(SubSeq(s, 1, Len(s) - 1))
    ELSE s

\* s.splitlines(): a trailing line break ends the last line, it starts no new one.
splitlines(s) ==
    LET parts == SplitKeep(s, {"\n"})
    IN  IF Len(s) = 0 THEN <<>>
        ELSE IF s[Len(s)] = "\n" THEN SubSeq(parts, 1, Len(parts) - 1)
        ELSE parts

(***************************************************************************)
(* Mapping Expander: create_dataframe_from_txt.                            *)
(***************************************************************************)
\* range(start, stop) as a sequence.
range(start, stop) == [i \in 1..(IF stop > start THEN stop - start ELSE 0) |-> start + i - 1]

\* The mutant below stops one short of `end`.
ExpandLineExclusive(mouse_id, start, end) ==
    LET numbers == range(start, end)
    IN  [i \in 1..Len(numbers) |-> <<mouse_id, numbers[i]>>]

\* for number in range(start, end + 1): data.append([mouse_id, int(number)])
ExpandLine(mouse_id, start, end) ==
    LET numbers == range(start, end + 1)
    IN  [i \in 1..Len(numbers) |-> <<mouse_id, numbers[i]>>]

\* Whether the loop body raises ValueError on this line: the unpacking of
\* line.split() or of number_range.split("-") into two names, or int().
LineRaises(raw) ==
    LET line == strip(raw)
        tokens == split(line)
    IN  /\ Len(line) > 0
        /\ \/ Len(tokens) # 2
           \/ LET parts == SplitKeep(tokens[2], {"-"})
              IN  Len(parts) # 2 \/ ~IsIntLiteral(parts[1]) \/ ~IsIntLiteral(parts[2])

\* The records the loop body appends for one line that does not raise.
ParseLine(raw) ==
    LET line == strip(raw)
        tokens == split(line)
        parts == SplitKeep(tokens[2], {"-"})
    IN  IF Len(line) = 0 THEN <<>>
        ELSE ExpandLine(tokens[1], int(parts[1]), int(parts[2]))

\* The loop over the lines: the list `data`, or the first ValueError.
RECURSIVE ParseLines(_, _)
ParseLines(content, data) ==
    IF Len(content) = 0 THEN Return(data)
    ELSE IF LineRaises(Head(content)) THEN Raise("ValueError")
    ELSE ParseLines(Tail(content), data \o ParseLine(Head(content)))

\* pd.DataFrame(data, columns=["mouse_id", "image_number"])
create_dataframe_from_txt(file_path) ==
    LET parsed == ParseLines(splitlines(file_path), <<>>)
        data == parsed.value
    IN  IF parsed.raised # "none" THEN parsed
        ELSE Return(DataFrame(<<"mouse_id", "image_number">>, RangeIndex(Len(data)),
                 [i \in 1..Len(data) |-> [mouse_id |-> Chars(data[i][1]), image_number |-> Num(data[i][2])]]))


(***************************************************************************)
(* Schema Normalizer: get_image_number and read_geojson_file.              *)
(***************************************************************************)
\* file_name.split("_")[1].split(".")[0], or IndexError without a second segment.
get_image_number(file_path) ==
    LET segments == SplitKeep(file_path.name, {"_"})
    IN  IF Len(segments) < 2 THEN Raise("IndexError")
        ELSE Return(SplitKeep(segments[2], {"."})[1])

\* Every column name of the script, in the order sorted() gives (ordinal).
SortedNames ==
    << "feature_type",
       "has_is_locked_column_in_original_file",
       "has_properties_classification_names_column_in_original_file",
       "image_number",
       "mouse_id",
       "properties.classification.name",
       "properties.classification.names",
       "properties.isLocked",
       "properties.measurements.Area µm^2",
       "properties.objectType",
       "type" >>

\* sorted(names) for a set of column names.
sorted(names) == LET Member(c) == c \in names IN SelectSeq(SortedNames, Member)

Elements(seq) == {seq[i] : i \in 1..Len(seq)}

\* The flat record of one nested dict: the leaves, named by their dotted paths.
RECURSIVE FlattenDict(_, _)
FlattenDict(prefix, fields) ==
    UNION { IF fields[k].kind = "dict"
            THEN FlattenDict(prefix \o k \o ".", fields[k].v)
            ELSE {<<prefix \o k, fields[k]>>} : k \in DOMAIN fields }

\* pd.json_normalize(features): one row per feature, the columns every path of
\* any feature, NaN where a feature lacks the path.  (The columns come in order
\* of first appearance; the model lists them sorted, as line 37 sorts them.)
json_normalize(features) ==
    LET flat == [i \in 1..Len(features) |-> FlattenDict("", features[i].v)]
        paths == UNION {{p[1] : p \in flat[i]} : i \in 1..Len(features)}
        Leaf(i, c) == IF \E p \in flat[i] : p[1] = c
                      THEN (CHOOSE p \in flat[i] : p[1] = c)[2]
                      ELSE Null
    IN  DataFrame(sorted(paths), RangeIndex(Len(features)),
                  [i \in 1..Len(features) |-> [c \in paths |-> Leaf(i, c)]])

\* df.rename({old: new}, axis=1)
rename(df, old, new) ==
    LET Renamed(c) == IF c = old THEN new ELSE c
        names == {Renamed(df.columns[j]) : j \in 1..Len(df.columns)}
    IN  DataFrame([j \in 1..Len(df.columns) |-> Renamed(df.columns[j])], df.index,
                  [i \in 1..Len(df.rows) |-> [c \in names |-> IF c = new /\ old \in DOMAIN df.rows[i] THEN df.rows[i][old] ELSE df.rows[i][c]]])

\* df[name] = value: a new column comes last, an existing one is overwritten.
SetColumn(df, name, value) ==
    DataFrame(IF name \in Elements(df.columns) THEN df.columns ELSE Append(df.columns, name),
              df.index,
              [i \in 1..Len(df.rows) |-> [c \in Elements(df.columns) \cup {name} |-> IF c = name THEN value ELSE df.rows[i][c]]])

\* pd.concat([df_raw["type"], df_json_normalize], axis=1)
PrependType(type, df) ==
    DataFrame(<<"type">> \o df.columns, df.index,
              [i \in 1..Len(df.rows) |-> [c \in Elements(df.columns) \cup {"type"} |-> IF c = "type" THEN type ELSE df.rows[i][c]]])

\* A backfill that records the column as original whether or not it was added.
BackfillAlwaysOriginal(df, column, flag) ==
    IF column \notin Elements(df.columns)
    THEN SetColumn(SetColumn(df, flag, Bool(TRUE)), column, Null)
    ELSE SetColumn(df, flag, Bool(TRUE))

\* df[flag] = True; if column not in df.columns: df[column] = None; df[flag] = False
Backfill(df, column, flag) ==
    IF column \notin Elements(df.columns)
    THEN SetColumn(SetColumn(SetColumn(df, flag, Bool(TRUE)), column, Null), flag, Bool(FALSE))
    ELSE SetColumn(df, flag, Bool(TRUE))

\* df.reindex(columns, axis=1)
reindex(df, columns) == DataFrame(columns, df.index, df.rows)

\* file_path.doc is the parsed JSON document: its top-level keys in order, its
\* "type" and its "features".
read_geojson_file(file_path) ==
    LET doc == file_path.doc
        df_json_normalize == rename(json_normalize(doc.features), "type", "feature_type")
        df_clean == PrependType(doc.type, df_json_normalize)
        locked == Backfill(df_clean, "properties.isLocked", "has_is_locked_column_in_original_file")
        named == Backfill(locked, "properties.classification.names", "has_properties_classification_names_column_in_original_file")
    IN  IF doc.keys # <<"type", "features">> THEN Raise("AssertionError")
        ELSE Return(reindex(named, sorted(Elements(named.columns))))

(***************************************************************************)
(* Dataset Combiner: lines 69-78.                                          *)
(***************************************************************************)
\* One pass of the loop body: df_tmp with its image_number, or what it raises.
ReadOneFile(file) ==
    LET image_number == get_image_number(file)
        df_tmp == read_geojson_file(file)
    IN  IF image_number.raised # "none" THEN image_number
        ELSE IF df_tmp.raised # "none" THEN df_tmp
        ELSE IF ~IsIntLiteral(image_number.value) THEN Raise("ValueError")
        ELSE Return(SetColumn(df_tmp.value, "image_number", Num(int(image_number.value))))

\* The loop: geojson_df_list, or the first exception.
RECURSIVE ReadFiles(_, _)
ReadFiles(files, geojson_df_list) ==
    IF Len(files) = 0 THEN Return(geojson_df_list)
    ELSE LET one == ReadOneFile(Head(files))
         IN  IF one.raised # "none" THEN one
             ELSE ReadFiles(Tail(files), Append(geojson_df_list, one.value))

\* The columns of pd.concat(dfs, axis=0): every column, in order of first appearance.
RECURSIVE ConcatColumns(_)
ConcatColumns(dfs) ==
    IF Len(dfs) = 0 THEN <<>>
    ELSE LET before == ConcatColumns(SubSeq(dfs, 1, Len(dfs) - 1))
             IsNew(c) == c \notin Elements(before)
         IN  before \o SelectSeq(dfs[Len(dfs)].columns, IsNew)

\* pd.concat(dfs, axis=0): the rows in list order, each keeping its index label,
\* NaN in the columns its frame lacks.
RECURSIVE ConcatRows(_, _)
ConcatRows(dfs, columns) ==
    IF Len(dfs) = 0 THEN <<>>
    ELSE LET df == Head(dfs)
         IN  [i \in 1..Len(df.rows) |-> [c \in columns |-> IF c \in DOMAIN df.rows[i] THEN df.rows[i][c] ELSE Null]]
             \o ConcatRows(Tail(dfs), columns)

RECURSIVE ConcatIndex(_)
ConcatIndex(dfs) == IF Len(dfs) = 0 THEN <<>> ELSE Head(dfs).index \o ConcatIndex(Tail(dfs))

concat(dfs) ==
    LET columns == ConcatColumns(dfs)
    IN  DataFrame(columns, ConcatIndex(dfs), ConcatRows(dfs, Elements(columns)))

\* df.reset_index(drop=True)
reset_index(df) == DataFrame(df.columns, RangeIndex(Len(df.rows)), df.rows)

\* A combine that keeps each fragment's own index labels.
CombineKeepIndex(geojson_df_list) == concat(geojson_df_list)

\* pd.concat(geojson_df_list, axis=0).reset_index(drop=True)
Combine(geojson_df_list) == reset_index(concat(geojson_df_list))

\* A combiner that refuses fragments whose column sets differ.
BuildCombineStrict(files) ==
    LET read == ReadFiles(files, <<>>)
    IN  IF read.raised # "none" THEN read
        ELSE IF \E i, j \in 1..Len(read.value) : Elements(read.value[i].columns) # Elements(read.value[j].columns)
        THEN Raise("ColumnMismatchError")
        ELSE Return(Combine(read.value))

\* Lines 69-78: the value stored as st.session_state.df_combine, or the exception.
BuildCombine(files) ==
    LET read == ReadFiles(files, <<>>)
    IN  IF read.raised # "none" THEN read ELSE Return(Combine(read.value))

(***************************************************************************)
(* Threshold Aggregator: the SQL of query and final_query.                 *)
(***************************************************************************)
\* SQL's three truth values.
SqlBool(b) == IF b THEN "true" ELSE "false"

SqlAnd(a, b) ==
    IF a = "false" \/ b = "false" THEN "false"
    ELSE IF a = "null" \/ b = "null" THEN "null"
    ELSE "true"

SqlOr(a, b) ==
    IF a = "true" \/ b = "true" THEN "true"
    ELSE IF a = "null" \/ b = "null" THEN "null"
    ELSE "false"

SqlNot(a) == IF a = "null" THEN "null" ELSE SqlBool(a = "false")

\* cell = 'literal'
SqlEq(cell, literal) == IF IsNull(cell) THEN "null" ELSE SqlBool(cell = literal)

\* cell >= number
SqlGe(cell, number) == IF IsNull(cell) THEN "null" ELSE SqlBool(cell.v >= number)

\* A comparison that leaves out the rows whose area equals the threshold.
SqlGt(cell, number) == IF IsNull(cell) THEN "null" ELSE SqlBool(cell.v > number)

NameColumn == "properties.classification.name"

AreaColumn == "properties.measurements.Area µm^2"

\* from df_combine as c inner join df_mouse_mapping as m: unmatched rows of c go.
InnerJoin(c, m) ==
    LET RECURSIVE Joined(_)
        Joined(rows) ==
            IF Len(rows) = 0 THEN <<>>
            ELSE LET row == Head(rows)
                     Matches(r) == ~IsNull(r.image_number) /\ r.image_number = row.image_number
                     matched == SelectSeq(m.rows, Matches)
                 IN  [j \in 1..Len(matched) |->
                         [mouse_id |-> matched[j].mouse_id, image_number |-> row.image_number,
                          name |-> row[NameColumn], area |-> row[AreaColumn]]]
                     \o Joined(Tail(rows))
    IN  Joined(c.rows)

\* from df_combine as c left join df_mouse_mapping as m on c.image_number =
\* m.image_number: every row of c once per matching row of m, and once with a
\* NULL m.mouse_id when none matches.
LeftJoin(c, m) ==
    LET RECURSIVE Joined(_)
        Joined(rows) ==
            IF Len(rows) = 0 THEN <<>>
            ELSE LET row == Head(rows)
                     Matches(r) == ~IsNull(r.image_number) /\ r.image_number = row.image_number
                     matched == SelectSeq(m.rows, Matches)
                     Pair(mouse_id) == [mouse_id |-> mouse_id, image_number |-> row.image_number,
                                        name |-> row[NameColumn], area |-> row[AreaColumn]]
                 IN  (IF Len(matched) = 0 THEN <<Pair(Null)>>
                      ELSE [j \in 1..Len(matched) |-> Pair(matched[j].mouse_id)])
                     \o Joined(Tail(rows))
    IN  Joined(c.rows)

\* The parenthesised disjunction of the where clause, with > for >=.
PassesThresholdStrict(row, t) ==
    SqlOr(SqlOr(SqlAnd(SqlEq(row.name, Str("CD8")), SqlGt(row.area, t.cd8)),
                SqlAnd(SqlEq(row.name, Str("CD4")), SqlGt(row.area, t.cd4))),
          SqlAnd(SqlEq(row.name, Str("Foxp3")), SqlGt(row.area, t.foxp3)))

\* The parenthesised disjunction of the where clause.
PassesThreshold(row, t) ==
    SqlOr(SqlOr(SqlAnd(SqlEq(row.name, Str("CD8")), SqlGe(row.area, t.cd8)),
                SqlAnd(SqlEq(row.name, Str("CD4")), SqlGe(row.area, t.cd4))),
          SqlAnd(SqlEq(row.name, Str("Foxp3")), SqlGe(row.area, t.foxp3)))

\* A where clause that keeps only the test on 'Other'.
WhereNotOtherOnly(row, t) == SqlNot(SqlEq(row.name, Str("Other")))

\* where ( ... ) and "properties.classification.name" != 'Other'
Where(row, t) == SqlAnd(PassesThreshold(row, t), SqlNot(SqlEq(row.name, Str("Other"))))

\* The ordinal order of the characters of the model's texts.
CharOrder == <<"\t", "\n", " ", "-", ".">> \o Digits \o <<"M", "_", "a", "b", "e", "g", "i", "j", "m", "n", "o", "s", "x">>

Ord(c) == CHOOSE i \in 1..Len(CharOrder) : CharOrder[i] = c

RECURSIVE CharsLess(_, _)
CharsLess(a, b) ==
    IF Len(b) = 0 THEN FALSE
    ELSE IF Len(a) = 0 THEN TRUE
    ELSE IF a[1] = b[1] THEN CharsLess(Tail(a), Tail(b))
    ELSE Ord(a[1]) < Ord(b[1])

\* order by 1, 2: ascending, NULL after every value (DuckDB's default).
CellLess(a, b) ==
    IF IsNull(a) THEN FALSE
    ELSE IF IsNull(b) THEN TRUE
    ELSE IF a.kind = "chars" THEN CharsLess(a.v, b.v)
    ELSE a.v < b.v

KeyLess(a, b) == CellLess(a[1], b[1]) \/ (a[1] = b[1] /\ CellLess(a[2], b[2]))

RECURSIVE OrderBy(_)
OrderBy(keys) ==
    IF keys = {} THEN <<>>
    ELSE LET first == CHOOSE k \in keys : \A other \in keys \ {k} : KeyLess(k, other)
         IN  <<first>> \o OrderBy(keys \ {first})

\* select ... group by 1, 2 order by 1, 2 over the rows the where clause keeps.
GroupAndCount(kept) ==
    LET Key(row) == <<row.mouse_id, row.image_number>>
        groups == OrderBy({Key(kept[i]) : i \in 1..Len(kept)})
        Count(g, name) == Cardinality({i \in 1..Len(kept) : Key(kept[i]) = g /\ SqlEq(kept[i].name, Str(name)) = "true"})
    IN  DataFrame(<<"mouse_id", "image_number", "row_count", "cd8_count", "cd4_count", "foxp3_count">>,
                  RangeIndex(Len(groups)),
                  [k \in 1..Len(groups) |->
                      [mouse_id     |-> groups[k][1],
                       image_number |-> groups[k][2],
                       row_count    |-> Num(Cardinality({i \in 1..Len(kept) : Key(kept[i]) = groups[k]})),
                       cd8_count    |-> Num(Count(groups[k], "CD8")),
                       cd4_count    |-> Num(Count(groups[k], "CD4")),
                       foxp3_count  |-> Num(Count(groups[k], "Foxp3"))]])

\* The rows of the join that the where clause keeps.
Filtered(joined, t) == LET Kept(row) == Where(row, t) = "true" IN SelectSeq(joined, Kept)

\* duckdb.sql(...).df() for either query text: a column the text names and
\* df_combine lacks ends the run with DuckDB's BinderException.
RunQuery(c, m, t) ==
    IF ~({NameColumn, AreaColumn, "image_number"} \subseteq Elements(c.columns))
    THEN Raise("BinderException")
    ELSE Return(GroupAndCount(Filtered(LeftJoin(c, m), t)))

\* Lines 104-130, the tuning path's query.
query(c, m, t) == RunQuery(c, m, t)

\* Lines 154-180, the production path's query.
final_query(c, m, t) == RunQuery(c, m, t)

(***************************************************************************)
(* Validation Comparator: lines 132-146.                                   *)
(***************************************************************************)
ReferenceColumns == <<"cd8_by_xm", "cd4_by_xm", "foxp3_by_xm">>

AggregateColumns == <<"row_count", "cd8_count", "cd4_count", "foxp3_count">>

OneMergedRow(l, r) ==
    [c \in {"mouse_id", "image_number"} \cup Elements(ReferenceColumns) \cup Elements(AggregateColumns) |->
        IF c \in Elements(AggregateColumns) THEN r[c] ELSE l[c]]

\* how="left": a reference row without a match stays, its counts NaN.
merge_left(left, right) ==
    LET RECURSIVE Merged(_)
        Merged(rows) ==
            IF Len(rows) = 0 THEN <<>>
            ELSE LET l == Head(rows)
                     Matches(r) == r.mouse_id = l.mouse_id /\ r.image_number = l.image_number
                     matched == SelectSeq(right.rows, Matches)
                     nothing == [c \in Elements(AggregateColumns) |-> Null]
                 IN  (IF Len(matched) = 0 THEN <<OneMergedRow(l, nothing)>>
                      ELSE [j \in 1..Len(matched) |-> OneMergedRow(l, matched[j])])
                     \o Merged(Tail(rows))
        rows == Merged(left.rows)
    IN  DataFrame(<<"mouse_id", "image_number">> \o ReferenceColumns \o AggregateColumns, RangeIndex(Len(rows)), rows)

\* pd.merge(left, right, on=["mouse_id", "image_number"], how="inner"): the rows
\* in the order of the left keys; pandas matches a null key with a null key.
merge(left, right) ==
    LET RECURSIVE Merged(_)
        Merged(rows) ==
            IF Len(rows) = 0 THEN <<>>
            ELSE LET l == Head(rows)
                     Matches(r) == r.mouse_id = l.mouse_id /\ r.image_number = l.image_number
                     matched == SelectSeq(right.rows, Matches)
                 IN  [j \in 1..Len(matched) |-> OneMergedRow(l, matched[j])] \o Merged(Tail(rows))
        rows == Merged(left.rows)
    IN  DataFrame(<<"mouse_id", "image_number">> \o ReferenceColumns \o AggregateColumns, RangeIndex(Len(rows)), rows)

\* df.query("cd8_by_xm.notna() or cd4_by_xm.notna() or foxp3_by_xm.notna()"):
\* a new frame; df itself is left as it is.
query_notna(df) ==
    LET Keep(i) == \E j \in 1..Len(ReferenceColumns) : ~IsNull(df.rows[i][ReferenceColumns[j]])
        kept == SelectSeq([i \in 1..Len(df.rows) |-> i], Keep)
    IN  DataFrame(df.columns, [k \in 1..Len(kept) |-> df.index[kept[k]]], [k \in 1..Len(kept) |-> df.rows[kept[k]]])

\* a - b on two columns' cells: NaN when either is.
Minus(a, b) == IF IsNull(a) \/ IsNull(b) THEN Null ELSE Num(a.v - b.v)

\* Lines 144-146: df_check["cd8_delta"] = df_check["cd8_by_xm"] - df_check["cd8_count"], ...
AddDeltas(df) ==
    DataFrame(df.columns \o <<"cd8_delta", "cd4_delta", "foxp3_delta">>, df.index,
              [i \in 1..Len(df.rows) |->
                  [c \in Elements(df.columns) \cup {"cd8_delta", "cd4_delta", "foxp3_delta"} |->
                      CASE c = "cd8_delta"   -> Minus(df.rows[i]["cd8_by_xm"], df.rows[i]["cd8_count"])
                        [] c = "cd4_delta"   -> Minus(df.rows[i]["cd4_by_xm"], df.rows[i]["cd4_count"])
                        [] c = "foxp3_delta" -> Minus(df.rows[i]["foxp3_by_xm"], df.rows[i]["foxp3_count"])
                        [] OTHER             -> df.rows[i][c]]])

\* Lines 132-146: the merge, the query whose result line 141 drops, the deltas.
CheckTable(self_count, df_image_agg) ==
    LET df_check == merge(self_count, df_image_agg)
        dropped == query_notna(df_check)
    IN  AddDeltas(df_check)

(***************************************************************************)
(* The script, top to bottom: one rerun.                                   *)
(***************************************************************************)
NoOutputs == [name \in {} |-> DataFrame(<<>>, <<>>, <<>>)]

\* Lines 67-80 without the test on st.session_state: every run with an upload
\* builds the table again.
CombineStepRebuild(files, session) ==
    IF Len(files) = 0 THEN Return(session)
    ELSE LET built == BuildCombine(files)
         IN  IF built.raised # "none" THEN built
             ELSE Return([k \in DOMAIN session \cup {"df_combine"} |-> IF k = "df_combine" THEN built.value ELSE session[k]])

\* Lines 67-80: st.session_state after them, or the exception that ends the run.
CombineStep(files, session) ==
    IF Len(files) = 0 \/ "df_combine" \in DOMAIN session THEN Return(session)
    ELSE LET built == BuildCombine(files)
         IN  IF built.raised # "none" THEN built
             ELSE Return([k \in DOMAIN session \cup {"df_combine"} |-> IF k = "df_combine" THEN built.value ELSE session[k]])

\* Lines 85-90.
MappingStep(file, session) ==
    IF ~file.uploaded \/ "df_mouse_mapping" \in DOMAIN session THEN Return(session)
    ELSE LET built == create_dataframe_from_txt(file.text)
         IN  IF built.raised # "none" THEN built
             ELSE Return([k \in DOMAIN session \cup {"df_mouse_mapping"} |-> IF k = "df_mouse_mapping" THEN built.value ELSE session[k]])

\* Lines 92-191: the tables this run binds, or the exception.
ReportStep(files, file, checkbox, self_count, t, session) ==
    IF ~(file.uploaded /\ Len(files) > 0) THEN Return(NoOutputs)
    ELSE IF checkbox
    THEN IF ~self_count.uploaded THEN Return(NoOutputs)
         ELSE LET df_image_agg == query(session["df_combine"], session["df_mouse_mapping"], t)
              IN  IF df_image_agg.raised # "none" THEN df_image_agg
                  ELSE Return([name \in {"df_image_agg", "df_check"} |->
                                  IF name = "df_image_agg" THEN df_image_agg.value
                                  ELSE CheckTable(self_count.df, df_image_agg.value)])
    ELSE LET df_image_final == final_query(session["df_combine"], session["df_mouse_mapping"], t)
         IN  IF df_image_final.raised # "none" THEN df_image_final
             ELSE Return([name \in {"df_image_final"} |-> df_image_final.value])

\* One run of the script on the widgets' values.  What a step stored in
\* st.session_state before an exception stays stored.
RunScript(files, file, checkbox, self_count, t) ==
    \E combined \in {CombineStep(files, session_state)} :
    \E session1 \in {IF combined.raised = "none" THEN combined.value ELSE session_state} :
    \E mapped \in {MappingStep(file, session1)} :
    \E session2 \in {IF mapped.raised = "none" THEN mapped.value ELSE session1} :
    \E report \in {IF combined.raised = "none" /\ mapped.raised = "none"
                   THEN ReportStep(files, file, checkbox, self_count, t, session2)
                   ELSE Return(NoOutputs)} :
        /\ geojson_files' = files
        /\ mapping_file' = file
        /\ tune' = checkbox
        /\ df_self_count' = self_count
        /\ thresholds' = t
        /\ pc' = "ran"
        /\ IF combined.raised # "none"
           THEN session_state' = session_state /\ outputs' = NoOutputs /\ exception' = combined.raised
           ELSE IF mapped.raised # "none"
           THEN session_state' = session1 /\ outputs' = NoOutputs /\ exception' = mapped.raised
           ELSE IF report.raised # "none"
           THEN session_state' = session2 /\ outputs' = NoOutputs /\ exception' = report.raised
           ELSE session_state' = session2 /\ outputs' = report.value /\ exception' = "none"

(***************************************************************************)
(* Inputs of the Mapping Expander.                                         *)
(***************************************************************************)
MouseIds == {<<"M", "1">>, <<"M", "7">>}

\* Range ends: one-digit and two-digit numbers.
RangeNumbers == {3, 5, 11}

\* A line as written: a well-formed entry, a blank line, or a malformed line.
EntryLines == [kind : {"entry"}, mouse_id : MouseIds, start : RangeNumbers, end : RangeNumbers, pad : {<<>>}]

PaddedLines == [kind : {"entry"}, mouse_id : {<<"M", "7">>}, start : {3}, end : {5}, pad : {<<" ">>}]

BlankLines == [kind : {"blank"}, mouse_id : {<<>>}, start : {0}, end : {0}, pad : {<<>>, <<" ">>}]

MalformedLines == [kind : {"one_token", "three_parts", "no_number"}, mouse_id : {<<"M", "1">>}, start : {3}, end : {5}, pad : {<<>>}]

MappingLines == EntryLines \cup PaddedLines \cup BlankLines \cup MalformedLines

RenderLine(e) ==
    CASE e.kind = "entry"       -> e.pad \o e.mouse_id \o <<" ">> \o str(e.start) \o <<"-">> \o str(e.end) \o e.pad
      [] e.kind = "blank"       -> e.pad
      [] e.kind = "one_token"   -> e.mouse_id
      [] e.kind = "three_parts" -> e.mouse_id \o <<" ">> \o str(e.start) \o <<"-">> \o str(e.end) \o <<"-">> \o str(e.end)
      [] e.kind = "no_number"   -> e.mouse_id \o <<" ">> \o str(e.start) \o <<"-">>

RECURSIVE RenderLines(_)
RenderLines(entries) ==
    IF Len(entries) = 0 THEN <<>>
    ELSE IF Len(entries) = 1 THEN RenderLine(entries[1])
    ELSE RenderLine(entries[1]) \o <<"\n">> \o RenderLines(Tail(entries))

SeqsUpTo(S, n) == UNION {[1..k -> S] : k \in 0..n}


(***************************************************************************)
(* Inputs of the Schema Normalizer and the Dataset Combiner.               *)
(***************************************************************************)
\* One feature of a GeoJSON export.  locked is "absent", "true" or "false";
\* names and object_type say whether the optional member is written.
Feature(name, area, locked, names, object_type) ==
    LET classification == ("name" :> Str(name)) @@ (IF names THEN "names" :> List(<<name>>) ELSE EmptyMap)
        properties == ("classification" :> Dict(classification))
                      @@ ("measurements" :> Dict("Area µm^2" :> Num(area)))
                      @@ (IF locked = "absent" THEN EmptyMap ELSE "isLocked" :> Bool(locked = "true"))
                      @@ (IF object_type THEN "objectType" :> Str("detection") ELSE EmptyMap)
    IN  Dict(("type" :> Str("Feature")) @@ ("properties" :> Dict(properties)))

Document(keys, features) == [keys |-> keys, type |-> Str("FeatureCollection"), features |-> features]

GeoJsonKeys == <<"type", "features">>

\* "<prefix>_<number><suffix>"
FileName(prefix, number, suffix) == prefix \o <<"_">> \o str(number) \o suffix

DotGeojson == <<".", "g", "e", "o", "j", "s", "o", "n">>

\* An uploaded file: its name, the document in it, and the image it is named for.
Upload(name, number, doc) == [name |-> name, number |-> number, doc |-> doc]

NormalizerFeatures ==
    {Feature(name, 30, locked, names, object_type) :
        name \in {"CD8", "Other"}, locked \in {"absent", "true", "false"},
        names \in BOOLEAN, object_type \in BOOLEAN}

NormalizerDocs ==
    {Document(keys, features) :
        keys \in {GeoJsonKeys, <<"features", "type">>, <<"type", "features", "bbox">>},
        features \in SeqsUpTo(NormalizerFeatures, MaxFeatures)}

SampleDocs ==
    { Document(GeoJsonKeys, <<Feature("CD8", 30, "absent", FALSE, FALSE)>>),
      Document(GeoJsonKeys, <<Feature("CD8", 30, "true", TRUE, FALSE), Feature("CD4", 10, "false", TRUE, FALSE)>>),
      Document(GeoJsonKeys, <<Feature("Foxp3", 25, "absent", FALSE, TRUE), Feature("Other", 30, "absent", FALSE, TRUE)>>),
      Document(GeoJsonKeys, <<>>),
      Document(<<"features", "type">>, <<Feature("CD8", 30, "absent", FALSE, FALSE)>>) }

SampleNames ==
    { [name |-> FileName(<<"i", "m", "g">>, 10, DotGeojson), number |-> 10],
      [name |-> FileName(<<"i", "m", "g">>, 11, <<".", "x">> \o DotGeojson), number |-> 11],
      [name |-> <<"i", "m", "g", "1", "0">> \o DotGeojson, number |-> 10],
      [name |-> <<"i", "m", "g", "_", "x">> \o DotGeojson, number |-> 0] }

SampleUploads == {Upload(n.name, n.number, doc) : n \in SampleNames, doc \in SampleDocs}

(***************************************************************************)
(* Inputs of the Threshold Aggregator and the Validation Comparator.       *)
(***************************************************************************)
Thresholds(cd8, cd4, foxp3) == [cd8 |-> cd8, cd4 |-> cd4, foxp3 |-> foxp3]

\* The number inputs' defaults (lines 151-153) and the sliders' (lines 101-103).
NumberInputDefaults == Thresholds(25, 30, 20)

SliderDefaults == Thresholds(25, 25, 25)

AnnotationRow(image_number, name, area) ==
    (("image_number" :> Num(image_number)) @@ (NameColumn :> name)) @@ (AreaColumn :> area)

\* Rows of the combined annotation table, as far as the queries read them.
AnnotationRows ==
    {AnnotationRow(i, Str(name), Num(area)) : i \in {1, 2}, name \in {"CD8", "CD4", "Foxp3"}, area \in {10, 25, 30}}
    \cup {AnnotationRow(i, Str(name), Num(30)) : i \in {1, 2}, name \in {"Other", "Tumor"}}
    \cup {AnnotationRow(1, Str("CD8"), Null), AnnotationRow(2, Null, Num(30))}

AnnotationTable(rows) == DataFrame(<<"image_number", NameColumn, AreaColumn>>, RangeIndex(Len(rows)), rows)

MappingRow(mouse_id, image_number) == [mouse_id |-> Chars(mouse_id), image_number |-> Num(image_number)]

MappingTable(rows) == DataFrame(<<"mouse_id", "image_number">>, RangeIndex(Len(rows)), rows)

\* Mapping tables: nothing mapped, image 1 mapped, image 1 listed twice, both
\* images mapped with image 1 under two mice.
SampleMappings ==
    { MappingTable(<<>>),
      MappingTable(<<MappingRow(<<"M", "7">>, 1)>>),
      MappingTable(<<MappingRow(<<"M", "1">>, 1), MappingRow(<<"M", "1">>, 1)>>),
      MappingTable(<<MappingRow(<<"M", "7">>, 1), MappingRow(<<"M", "1">>, 1), MappingRow(<<"M", "1">>, 2)>>) }

NoFile == [uploaded |-> FALSE, text |-> <<>>]

TextFile(text) == [uploaded |-> TRUE, text |-> text]

NoReference == [uploaded |-> FALSE, df |-> DataFrame(<<>>, <<>>, <<>>)]

Reference(rows) ==
    [uploaded |-> TRUE,
     df |-> DataFrame(<<"mouse_id", "image_number">> \o ReferenceColumns, RangeIndex(Len(rows)), rows)]

ReferenceRow(mouse_id, image_number, cd8, cd4, foxp3) ==
    [mouse_id |-> mouse_id, image_number |-> Num(image_number),
     cd8_by_xm |-> cd8, cd4_by_xm |-> cd4, foxp3_by_xm |-> foxp3]

ReferenceRows ==
    {ReferenceRow(mouse_id, i, counts[1], counts[2], counts[3]) :
        mouse_id \in {Chars(<<"M", "1">>), Chars(<<"M", "7">>), Null}, i \in {1, 3},
        counts \in {<<Null, Null, Null>>, <<Num(2), Null, Num(0)>>, <<Num(1), Num(1), Num(1)>>}}

\* An upload and a mapping text that stand for whatever was uploaded when the
\* session's tables were built.
SomeUpload == <<Upload(FileName(<<"i", "m", "g">>, 1, DotGeojson), 1, Document(GeoJsonKeys, <<>>))>>

SomeMappingText == <<"M", "1", " ", "1", "-", "2">>

(***************************************************************************)
(* Specifications.                                                         *)
(***************************************************************************)
\* A fresh session: nothing uploaded, nothing stored, nothing run.
Fresh ==
    /\ geojson_files = <<>>
    /\ mapping_file = NoFile
    /\ tune = FALSE
    /\ df_self_count = NoReference
    /\ thresholds = NumberInputDefaults
    /\ session_state = EmptyMap
    /\ outputs = NoOutputs
    /\ exception = "none"
    /\ pc = "start"
    /\ mapping_entries = <<>>

\* The first run of the script on the widgets' values.
RunOnce ==
    /\ pc = "start"
    /\ RunScript(geojson_files, mapping_file, tune, df_self_count, thresholds)
    /\ UNCHANGED mapping_entries

\* Mapping Expander: a mapping text is uploaded to a fresh session.
InitMapping ==
    /\ mapping_entries \in SeqsUpTo(MappingLines, MaxLines)
    /\ \E newline \in {<<>>, <<"\n">>} : mapping_file = TextFile(RenderLines(mapping_entries) \o newline)
    /\ geojson_files = <<>>
    /\ tune = FALSE
    /\ df_self_count = NoReference
    /\ thresholds = NumberInputDefaults
    /\ session_state = EmptyMap
    /\ outputs = NoOutputs
    /\ exception = "none"
    /\ pc = "start"

SpecMapping == InitMapping /\ [][RunOnce]_vars

\* Schema Normalizer: one GeoJSON file is uploaded to a fresh session.
InitNormalize ==
    /\ \E doc \in NormalizerDocs : geojson_files = <<Upload(FileName(<<"i", "m", "g">>, 10, DotGeojson), 10, doc)>>
    /\ mapping_file = NoFile
    /\ tune = FALSE
    /\ df_self_count = NoReference
    /\ thresholds = NumberInputDefaults
    /\ session_state = EmptyMap
    /\ outputs = NoOutputs
    /\ exception = "none"
    /\ pc = "start"
    /\ mapping_entries = <<>>

SpecNormalize == InitNormalize /\ [][RunOnce]_vars

\* Dataset Combiner: several GeoJSON files are uploaded to a fresh session.
InitCombine ==
    /\ geojson_files \in SeqsUpTo(SampleUploads, MaxFiles)
    /\ mapping_file = NoFile
    /\ tune = FALSE
    /\ df_self_count = NoReference
    /\ thresholds = NumberInputDefaults
    /\ session_state = EmptyMap
    /\ outputs = NoOutputs
    /\ exception = "none"
    /\ pc = "start"
    /\ mapping_entries = <<>>

SpecCombine == InitCombine /\ [][RunOnce]_vars

\* The session already holds both tables.
Holding(df_combine, df_mouse_mapping) ==
    [k \in {"df_combine", "df_mouse_mapping"} |-> IF k = "df_combine" THEN df_combine ELSE df_mouse_mapping]

SampleReference ==
    Reference(<<ReferenceRow(Chars(<<"M", "1">>), 1, Num(1), Null, Num(0))>>)

\* Threshold Aggregator: the session holds the two tables an earlier run built,
\* and the script runs down either path.
InitAggregate ==
    /\ \E rows \in SeqsUpTo(AnnotationRows, MaxRows), m \in SampleMappings :
          session_state = Holding(AnnotationTable(rows), m)
    /\ \/ tune = FALSE /\ df_self_count = NoReference /\ thresholds \in {NumberInputDefaults, SliderDefaults}
       \/ tune = TRUE /\ df_self_count = SampleReference /\ thresholds = SliderDefaults
    /\ geojson_files = SomeUpload
    /\ mapping_file = TextFile(SomeMappingText)
    /\ outputs = NoOutputs
    /\ exception = "none"
    /\ pc = "start"
    /\ mapping_entries = <<>>

SpecAggregate == InitAggregate /\ [][RunOnce]_vars

SampleAnnotations ==
    { AnnotationTable(<<AnnotationRow(1, Str("CD8"), Num(30)), AnnotationRow(1, Str("CD4"), Num(30)),
                        AnnotationRow(2, Str("Foxp3"), Num(30)), AnnotationRow(3, Str("CD8"), Num(25))>>),
      AnnotationTable(<<AnnotationRow(1, Str("CD8"), Num(30)), AnnotationRow(1, Str("CD8"), Num(10)),
                        AnnotationRow(3, Str("Other"), Num(30))>>) }

\* Validation Comparator: the tuning path with a reference table.
InitCheck ==
    /\ \E c \in SampleAnnotations, m \in SampleMappings : session_state = Holding(c, m)
    /\ \E rows \in SeqsUpTo(ReferenceRows, MaxRefRows) : df_self_count = Reference(rows)
    /\ tune = TRUE
    /\ thresholds = SliderDefaults
    /\ geojson_files = SomeUpload
    /\ mapping_file = TextFile(SomeMappingText)
    /\ outputs = NoOutputs
    /\ exception = "none"
    /\ pc = "start"
    /\ mapping_entries = <<>>

SpecCheck == InitCheck /\ [][RunOnce]_vars

\* A session: the user changes the widgets and the script reruns.
SessionUploads ==
    { <<>>,
      <<Upload(FileName(<<"i", "m", "g">>, 1, DotGeojson), 1,
               Document(GeoJsonKeys, <<Feature("CD8", 30, "absent", FALSE, FALSE), Feature("CD8", 10, "absent", FALSE, FALSE)>>))>>,
      <<Upload(FileName(<<"i", "m", "g">>, 2, DotGeojson), 2,
               Document(GeoJsonKeys, <<Feature("CD4", 30, "true", FALSE, FALSE)>>)),
        Upload(FileName(<<"i", "m", "g">>, 3, DotGeojson), 3,
               Document(GeoJsonKeys, <<Feature("Foxp3", 25, "absent", TRUE, FALSE)>>))>>,
      <<Upload(<<"i", "m", "g">> \o DotGeojson, 0, Document(GeoJsonKeys, <<>>))>> }

SessionMappings ==
    { NoFile,
      TextFile(<<"M", "1", " ", "1", "-", "2">>),
      TextFile(<<"M", "7", " ", "2", "-", "3", "\n">>),
      TextFile(<<"M", "7", " ", "2">>) }

Rerun ==
    /\ \E files \in SessionUploads, file \in SessionMappings, checkbox \in BOOLEAN,
          self_count \in {NoReference, SampleReference}, t \in {NumberInputDefaults, SliderDefaults} :
          /\ ~checkbox => self_count = NoReference
          /\ RunScript(files, file, checkbox, self_count, t)
    /\ UNCHANGED mapping_entries

SpecSession == Fresh /\ [][Rerun]_vars

Spec == SpecSession

(***************************************************************************)
(* Properties.                                                             *)
(***************************************************************************)
Ran == pc = "ran" /\ exception = "none"

\* The aggregate table of the last run, from whichever path it took.
Aggregate == IF "df_image_final" \in DOMAIN outputs THEN outputs["df_image_final"] ELSE outputs["df_image_agg"]

Aggregated == Ran /\ DOMAIN outputs # {}

AnnotationRowsHeld == session_state["df_combine"].rows

MappingRowsHeld == session_state["df_mouse_mapping"].rows

\* Whether annotation row i is of class `name` with a (non-null) area at or
\* above `bound`.
AtOrAbove(i, name, bound) ==
    LET row == AnnotationRowsHeld[i]
    IN  row[NameColumn] = Str(name) /\ row[AreaColumn].kind = "num" /\ row[AreaColumn].v >= bound

PassesOwnThreshold(i) ==
    \/ AtOrAbove(i, "CD8", thresholds.cd8)
    \/ AtOrAbove(i, "CD4", thresholds.cd4)
    \/ AtOrAbove(i, "Foxp3", thresholds.foxp3)

Unmapped(i) == \A j \in 1..Len(MappingRowsHeld) : MappingRowsHeld[j].image_number # AnnotationRowsHeld[i].image_number

\* The joined rows of the group of aggregate row g, as pairs <<i, j>> of an
\* annotation row and the mapping row it joins (j = 0: no mapping row).
JoinedRowsOf(g) ==
    {p \in (1..Len(AnnotationRowsHeld)) \X (0..Len(MappingRowsHeld)) :
        /\ AnnotationRowsHeld[p[1]].image_number = g.image_number
        /\ IF p[2] = 0 THEN IsNull(g.mouse_id) /\ Unmapped(p[1])
           ELSE /\ MappingRowsHeld[p[2]].image_number = g.image_number
                /\ MappingRowsHeld[p[2]].mouse_id = g.mouse_id}

CountAtOrAbove(g, name, bound) == Cardinality({p \in JoinedRowsOf(g) : AtOrAbove(p[1], name, bound)})

\* C1: each per-class count of an aggregate record is the number of joined rows
\* of its (mouse, image) group that are of the class and whose area is at or
\* above the class's threshold; a row below its threshold is not counted, a row
\* at its threshold is.
C1_CountsAreThresholdedRows ==
    Aggregated =>
        \A k \in 1..Len(Aggregate.rows) :
            LET g == Aggregate.rows[k]
            IN  /\ g.cd8_count = Num(CountAtOrAbove(g, "CD8", thresholds.cd8))
                /\ g.cd4_count = Num(CountAtOrAbove(g, "CD4", thresholds.cd4))
                /\ g.foxp3_count = Num(CountAtOrAbove(g, "Foxp3", thresholds.foxp3))

\* Two CD8 rows of one mapped image, one at the CD8 threshold and one below it,
\* and an aggregate record that counts exactly one of them.
C1_Witness ==
    /\ Aggregated
    /\ \E i, j \in 1..Len(AnnotationRowsHeld) :
          /\ AnnotationRowsHeld[i].image_number = AnnotationRowsHeld[j].image_number
          /\ AnnotationRowsHeld[i][NameColumn] = Str("CD8") /\ AnnotationRowsHeld[i][AreaColumn] = Num(thresholds.cd8)
          /\ AnnotationRowsHeld[j][NameColumn] = Str("CD8") /\ AnnotationRowsHeld[j][AreaColumn] = Num(10)
          /\ \E k \in 1..Len(Aggregate.rows) :
                /\ Aggregate.rows[k].image_number = AnnotationRowsHeld[i].image_number
                /\ ~IsNull(Aggregate.rows[k].mouse_id)
                /\ Aggregate.rows[k].cd8_count = Num(1)

\* C2: an annotation row that passes its class threshold and whose image has no
\* mapping record is counted in the aggregate record with a null mouse
\* identifier and that image identifier.
C2_UnmappedRowsAreCounted ==
    Aggregated =>
        \A i \in 1..Len(AnnotationRowsHeld) :
            (PassesOwnThreshold(i) /\ Unmapped(i)) =>
                \E k \in 1..Len(Aggregate.rows) :
                    /\ IsNull(Aggregate.rows[k].mouse_id)
                    /\ Aggregate.rows[k].image_number = AnnotationRowsHeld[i].image_number
                    /\ Aggregate.rows[k].row_count =
                          Num(Cardinality({h \in 1..Len(AnnotationRowsHeld) :
                                  /\ AnnotationRowsHeld[h].image_number = AnnotationRowsHeld[i].image_number
                                  /\ PassesOwnThreshold(h)}))

\* A passing row of an unmapped image, beside a mapped image's record.
C2_Witness ==
    /\ Aggregated
    /\ Len(MappingRowsHeld) > 0
    /\ \E i \in 1..Len(AnnotationRowsHeld) : PassesOwnThreshold(i) /\ Unmapped(i)
    /\ \E k \in 1..Len(Aggregate.rows) : ~IsNull(Aggregate.rows[k].mouse_id)

\* The records the well-formed lines of the upload stand for, line by line.
RECURSIVE ExpectedRecords(_)
ExpectedRecords(entries) ==
    IF Len(entries) = 0 THEN <<>>
    ELSE LET e == Head(entries)
             count == IF e.kind = "entry" /\ e.start <= e.end THEN e.end - e.start + 1 ELSE 0
         IN  [n \in 1..count |-> MappingRow(e.mouse_id, e.start + n - 1)] \o ExpectedRecords(Tail(entries))

WellFormed(entries) == \A i \in 1..Len(entries) : entries[i].kind \in {"entry", "blank"}

\* C3: for well-formed lines "<mouse_id> <start>-<end>" the mapping table holds
\* exactly the records (mouse_id, n), start <= n <= end, ascending, line after
\* line: end - start + 1 records of a line, none (and no error) when start >
\* end, none of a blank line.
C3_MappingExpansion ==
    (pc = "ran" /\ WellFormed(mapping_entries)) =>
        /\ exception = "none"
        /\ "df_mouse_mapping" \in DOMAIN session_state
        /\ session_state["df_mouse_mapping"].rows = ExpectedRecords(mapping_entries)

\* A line with start > end, then a line with start < end: only the second
\* contributes, end - start + 1 records.
C3_Witness ==
    /\ Ran
    /\ Len(mapping_entries) = 2
    /\ mapping_entries[1].kind = "entry" /\ mapping_entries[1].start > mapping_entries[1].end
    /\ mapping_entries[2].kind = "entry" /\ mapping_entries[2].start < mapping_entries[2].end
    /\ Len(session_state["df_mouse_mapping"].rows) = mapping_entries[2].end - mapping_entries[2].start + 1

\* Whether a feature of the document writes properties.isLocked.
WritesIsLocked(feature) == "isLocked" \in DOMAIN feature.v["properties"].v

LockedColumn == "properties.isLocked"

LockedFlag == "has_is_locked_column_in_original_file"

\* C4: when no feature of an accepted GeoJSON file has properties.isLocked, the
\* column is there, null in every row, and the provenance flag is false in
\* every row; when some feature has it, every value is the file's own (null
\* for a feature without it) and the flag is true in every row.
C4_IsLockedBackfill ==
    (Ran /\ Len(geojson_files) = 1) =>
        LET features == geojson_files[1].doc.features
            df == session_state["df_combine"]
            original == \E i \in 1..Len(features) : WritesIsLocked(features[i])
        IN  /\ LockedColumn \in Elements(df.columns)
            /\ LockedFlag \in Elements(df.columns)
            /\ Len(df.rows) = Len(features)
            /\ \A i \in 1..Len(features) :
                  /\ df.rows[i][LockedFlag] = Bool(original)
                  /\ df.rows[i][LockedColumn] =
                        IF WritesIsLocked(features[i]) THEN features[i].v["properties"].v["isLocked"] ELSE Null

\* A file with features, none of which has properties.isLocked.
C4_Witness ==
    /\ Ran
    /\ Len(geojson_files) = 1
    /\ Len(geojson_files[1].doc.features) = MaxFeatures
    /\ \A i \in 1..Len(geojson_files[1].doc.features) : ~WritesIsLocked(geojson_files[1].doc.features[i])
    /\ \A i \in 1..Len(session_state["df_combine"].rows) : session_state["df_combine"].rows[i][LockedFlag] = Bool(FALSE)

\* The rows of the files before file k.
RECURSIVE RowsBefore(_)
RowsBefore(k) == IF k <= 1 THEN 0 ELSE RowsBefore(k - 1) + Len(geojson_files[k - 1].doc.features)

Fragment(k) == read_geojson_file(geojson_files[k]).value

\* C5: the combined table has as many rows as the fragments together, the
\* fragments in upload order with their rows in order, every row with its
\* file's image identifier, and the row index 0..N-1.
C5_CombinePreservesRows ==
    (Ran /\ Len(geojson_files) > 0) =>
        LET df == session_state["df_combine"]
            total == RowsBefore(Len(geojson_files) + 1)
        IN  /\ Len(df.rows) = total
            /\ df.index = [i \in 1..total |-> i - 1]
            /\ \A k \in 1..Len(geojson_files) :
                  \A r \in 1..Len(Fragment(k).rows) :
                      /\ df.rows[RowsBefore(k) + r]["image_number"] = Num(geojson_files[k].number)
                      /\ \A c \in Elements(Fragment(k).columns) :
                            df.rows[RowsBefore(k) + r][c] = Fragment(k).rows[r][c]

\* Two files for two images, the first with two rows.
C5_Witness ==
    /\ Ran
    /\ Len(geojson_files) = 2
    /\ geojson_files[1].number # geojson_files[2].number
    /\ Len(geojson_files[1].doc.features) = 2
    /\ Len(geojson_files[2].doc.features) > 0
    /\ Len(session_state["df_combine"].rows) > 2

\* The upload's files were all read, and their fragments' column sets differ.
FragmentsDiffer ==
    /\ pc = "ran"
    /\ Len(geojson_files) > 0
    /\ ReadFiles(geojson_files, <<>>).raised = "none"
    /\ \E k, h \in 1..Len(geojson_files) : Elements(Fragment(k).columns) # Elements(Fragment(h).columns)

AllReferenceNull(row) == \A j \in 1..Len(ReferenceColumns) : IsNull(row[ReferenceColumns[j]])

\* C7: df_check keeps only rows in which one of cd8_by_xm, cd4_by_xm,
\* foxp3_by_xm is not null.
C7_CheckKeepsOnlyCountedRows ==
    (Ran /\ "df_check" \in DOMAIN outputs) =>
        \A i \in 1..Len(outputs["df_check"].rows) : ~AllReferenceNull(outputs["df_check"].rows[i])

SamePair(a, b) == a.mouse_id = b.mouse_id /\ a.image_number = b.image_number

\* reference - count, null for a null reference count.
Delta(reference, count) == IF IsNull(reference) THEN Null ELSE Num(reference.v - count.v)

\* C8: a row of the comparison output has its (mouse, image) pair, and its
\* counts, from a row of the reference table and from a row of the aggregate
\* table, and each delta is the reference count minus the aggregate count
\* (null when the reference count is null).
C8_CheckIsInnerJoinWithDeltas ==
    (Ran /\ "df_check" \in DOMAIN outputs) =>
        \A i \in 1..Len(outputs["df_check"].rows) :
            LET row == outputs["df_check"].rows[i]
            IN  /\ \E l \in 1..Len(df_self_count.df.rows) :
                      /\ SamePair(df_self_count.df.rows[l], row)
                      /\ \A j \in 1..Len(ReferenceColumns) : row[ReferenceColumns[j]] = df_self_count.df.rows[l][ReferenceColumns[j]]
                /\ \E a \in 1..Len(outputs["df_image_agg"].rows) :
                      /\ SamePair(outputs["df_image_agg"].rows[a], row)
                      /\ \A j \in 1..Len(AggregateColumns) : row[AggregateColumns[j]] = outputs["df_image_agg"].rows[a][AggregateColumns[j]]
                /\ row["cd8_delta"] = Delta(row["cd8_by_xm"], row["cd8_count"])
                /\ row["cd4_delta"] = Delta(row["cd4_by_xm"], row["cd4_count"])
                /\ row["foxp3_delta"] = Delta(row["foxp3_by_xm"], row["foxp3_count"])

\* A pair only in the reference, a pair only in the aggregate, and a pair in
\* both whose row has a delta and a null delta.
C8_Witness ==
    /\ Ran
    /\ "df_check" \in DOMAIN outputs
    /\ \E l \in 1..Len(df_self_count.df.rows) :
          \A a \in 1..Len(outputs["df_image_agg"].rows) : ~SamePair(df_self_count.df.rows[l], outputs["df_image_agg"].rows[a])
    /\ \E a \in 1..Len(outputs["df_image_agg"].rows) :
          \A l \in 1..Len(df_self_count.df.rows) : ~SamePair(df_self_count.df.rows[l], outputs["df_image_agg"].rows[a])
    /\ Len(outputs["df_check"].rows) = 1
    /\ ~IsNull(outputs["df_check"].rows[1]["cd8_delta"])
    /\ outputs["df_check"].rows[1]["cd8_delta"] # Num(0)
    /\ IsNull(outputs["df_check"].rows[1]["cd4_delta"])

Holds(state, key) == key \in DOMAIN state

\* The aggregation a run shows is the query over the tables the session holds.
ShowsHeldTables ==
    DOMAIN outputs # {} =>
        Aggregate = RunQuery(session_state["df_combine"], session_state["df_mouse_mapping"], thresholds).value

\* One rerun: a table the session holds stays as it is; a table the session
\* lacks is built when this run's upload is there and the run reads it without
\* an exception, from that upload, and in no other run.
TablesKeptOrBuilt ==
    /\ Holds(session_state, "df_combine") =>
          (Holds(session_state', "df_combine") /\ session_state'["df_combine"] = session_state["df_combine"])
    /\ Holds(session_state, "df_mouse_mapping") =>
          (Holds(session_state', "df_mouse_mapping") /\ session_state'["df_mouse_mapping"] = session_state["df_mouse_mapping"])
    /\ (~Holds(session_state, "df_combine") /\ Len(geojson_files') > 0) =>
          (LET read == ReadFiles(geojson_files', <<>>)
           IN  (read.raised = "none") =>
                   (Holds(session_state', "df_combine") /\ session_state'["df_combine"] = Combine(read.value)))
    /\ (~Holds(session_state, "df_combine") /\ Holds(session_state', "df_combine")) => Len(geojson_files') > 0
    /\ (~Holds(session_state, "df_mouse_mapping") /\ mapping_file'.uploaded /\ exception' = "none") =>
          (/\ Holds(session_state', "df_mouse_mapping")
           /\ session_state'["df_mouse_mapping"] = create_dataframe_from_txt(mapping_file'.text).value)
    /\ (~Holds(session_state, "df_mouse_mapping") /\ Holds(session_state', "df_mouse_mapping")) => mapping_file'.uploaded

C10_RowCountIsSumOfClassCounts ==
    Aggregated =>
        /\ \A k \in 1..Len(Aggregate.rows) :
              LET g == Aggregate.rows[k]
              IN  /\ g.row_count.v = g.cd8_count.v + g.cd4_count.v + g.foxp3_count.v
                  /\ g.row_count.v >= 1
                  /\ \E i \in 1..Len(AnnotationRowsHeld) :
                        AnnotationRowsHeld[i].image_number = g.image_number /\ PassesOwnThreshold(i)
        /\ LET joined == LeftJoin(session_state["df_combine"], session_state["df_mouse_mapping"])
           IN  \A n \in 1..Len(joined) :
                   (Where(joined[n], thresholds) = "true") <=> (PassesThreshold(joined[n], thresholds) = "true")

\* An 'Other' row whose area is above every threshold, in an image that gets no
\* record, beside an image that gets one.
C10_Witness ==
    /\ Aggregated
    /\ Len(Aggregate.rows) = 1
    /\ \E i \in 1..Len(AnnotationRowsHeld) :
          /\ AnnotationRowsHeld[i][NameColumn] = Str("Other")
          /\ AnnotationRowsHeld[i][AreaColumn].v >= 30
          /\ \A k \in 1..Len(Aggregate.rows) : Aggregate.rows[k].image_number # AnnotationRowsHeld[i].image_number

====
